---- MODULE Spec2Model ----
(***************************************************************************)
(* Model of syncly.py (Demo 1): a pool of quota-limited Google Drive       *)
(* accounts ("buckets").  upload_file places a file whole or in chunks,    *)
(* then rewrites metadata.json; download_from_all_buckets rebuilds a file  *)
(* from metadata.json or from a scan of the buckets.                       *)
(*                                                                         *)
(* Strings are sequences of character codes that keep the ASCII order of   *)
(* the characters used: digits 0..9 are 0..9, '_' is 10, 'a' 11, 'b' 12,   *)
(* 'p' 13, 'r' 14, 't' 15.  File contents are sequences of byte values.    *)
(***************************************************************************)
EXTENDS Integers, Sequences, FiniteSets, TLC

\* ------------------------------------------------------------------ bounds
MaxBuckets == 2      \* buckets of the enumerated pools
MaxFree == 2         \* free bytes per bucket in the enumerated pools
MaxSize == 3         \* sizes of the enumerated local files
MaxUploads == 2      \* uploads started in one behaviour
MaxExternal == 1     \* bytes other applications take from the pool
MaxFailAt == 2       \* a failing fetch is among the first MaxFailAt of a download
ManyBuckets == 11    \* buckets of the pool of one-byte buckets

\* ------------- the concrete scenario: A free 10, B free 5, a file of 12 bytes
Scenario == [free |-> <<10, 5>>, size |-> 12]
ScenarioFreeA == Scenario.free[1]
ScenarioFreeB == Scenario.free[2]
ScenarioSize == Scenario.size

\* ----------------------------------------------------------------- strings
NameA == <<11>>
NameB == <<12>>
FileNames == {NameA, NameB}
PartSuffix == <<10, 13, 11, 14, 15>>

Procs == {1, 2}
SeqProcs == {1}

VARIABLES
  tokens,     \* get_all_authenticated_buckets(): the bucket ids, in listing order
  realFree,   \* per bucket: storageQuota limit - usage on the Drive account
  drive,      \* per bucket: the remote objects, file_id = position
  metaFile,   \* metadata.json
  up,         \* per process: the locals of its upload_file call
  dl,         \* the last download_from_all_buckets call and its save_path
  nUploads,   \* uploads started so far
  extUsed     \* bytes taken by other applications so far

vars == <<tokens, realFree, drive, metaFile, up, dl, nUploads, extUsed>>

\* ----------------------------------------------------------------- helpers
Min(a, b) == IF a < b THEN a ELSE b

RECURSIVE SumFree(_)
SumFree(fs) == IF fs = <<>> THEN 0 ELSE Head(fs).free + SumFree(Tail(fs))

RECURSIVE Digits(_)
\* str(n) for n >= 0
Digits(n) == IF n < 10 THEN <<n>> ELSE Digits(n \div 10) \o <<n % 10>>

\* the parts numbered from 0, as the local chunk files are
ChunkNameFromZero(file_name, chunk_index) == file_name \o PartSuffix \o Digits(chunk_index)

\* f'{file_name}_part{chunk_index + 1}'
ChunkName(file_name, chunk_index) == file_name \o PartSuffix \o Digits(chunk_index + 1)

\* Python's str < str
LexLess(a, b) ==
  \E k \in 1..(Min(Len(a), Len(b)) + 1) :
     /\ \A j \in 1..(k - 1) : a[j] = b[j]
     /\ \/ k > Len(a) /\ k <= Len(b)
        \/ k <= Len(a) /\ k <= Len(b) /\ a[k] < b[k]

\* stable sorting by insertion: x goes after every element not after it
RECURSIVE InsertName(_, _)
InsertName(sorted, x) ==
  IF sorted = <<>> THEN <<x>>
  ELSE IF LexLess(x, Head(sorted)) THEN <<x>> \o sorted
  ELSE <<Head(sorted)>> \o InsertName(Tail(sorted), x)

RECURSIVE SortedNames(_)
\* sorted(names): ascending, stable
SortedNames(s) ==
  IF s = <<>> THEN <<>>
  ELSE InsertName(SortedNames(SubSeq(s, 1, Len(s) - 1)), s[Len(s)])

RECURSIVE InsertDescending(_, _)
InsertDescending(sorted, x) ==
  IF sorted = <<>> THEN <<x>>
  ELSE IF x.free > Head(sorted).free THEN <<x>> \o sorted
  ELSE <<Head(sorted)>> \o InsertDescending(Tail(sorted), x)

RECURSIVE SortDescending(_)
\* free_space.sort(reverse=True, key=lambda x: x[0]): descending, stable
SortDescending(fs) ==
  IF fs = <<>> THEN <<>>
  ELSE InsertDescending(SortDescending(SubSeq(fs, 1, Len(fs) - 1)), fs[Len(fs)])

RECURSIVE InsertAscending(_, _)
InsertAscending(sorted, x) ==
  IF sorted = <<>> THEN <<x>>
  ELSE IF x.free < Head(sorted).free THEN <<x>> \o sorted
  ELSE <<Head(sorted)>> \o InsertAscending(Tail(sorted), x)

\* the table sorted the other way round: the largest bucket first
LargestFirst(fs) == SortDescending(fs)

RECURSIVE SortAscending(_)
\* free_space.sort(reverse=False, key=lambda x: x[0]): ascending, stable
SortAscending(fs) ==
  IF fs = <<>> THEN <<>>
  ELSE InsertAscending(SortAscending(SubSeq(fs, 1, Len(fs) - 1)), fs[Len(fs)])

\* the local files a user may upload: byte i of a file is i
FileBytes(n) == [i \in 1..n |-> i]
LocalFiles == {FileBytes(n) : n \in (0..MaxSize) \cup {ScenarioSize, ManyBuckets}}

\* ---------------------------------------------------------- metadata.json
MetaMissing == [kind |-> "missing", recs |-> <<>>]
MetaEmpty == [kind |-> "empty", recs |-> <<>>]
MetaCorrupt == [kind |-> "corrupt", recs |-> <<>>]
MetaList(recs) == [kind |-> "list", recs |-> recs]

\* lines 252-262: which branch reads metadata.json, and what it yields
LoadBranch(doc) ==
  IF doc.kind \in {"missing", "empty"} THEN "absent"
  ELSE IF doc.kind = "corrupt" THEN "corrupt"
  ELSE "parsed"
LoadExisting(doc) == IF LoadBranch(doc) = "parsed" THEN doc.recs ELSE <<>>

\* ------------------------------------------------------------ upload_file
IdleUp ==
  [pc |-> "idle", file_name |-> <<>>, content |-> <<>>, file_size |-> 0,
   snapshot |-> <<>>, free_space |-> <<>>, total_free |-> 0, chunks |-> <<>>,
   offset |-> 0, chunk_index |-> 0, filepos |-> 0,
   loaded |-> "none", existing |-> <<>>, outcome |-> "none"]

NoDownload ==
  [file_name |-> <<>>, via |-> "none", result |-> "none", fetch_failed |-> FALSE,
   files |-> {}]

Active(p) == up[p].pc \in {"whole", "loop", "meta_read", "meta_write"}

\* check_storage: (limit, usage), or (0, 0) when the query fails
CheckStorage(b, failed) == IF b \in failed THEN 0 ELSE realFree[b]

RECURSIVE Snapshot(_, _)
\* the loop over the buckets: free_space keeps the buckets with free > 0
Snapshot(bs, failed) ==
  IF bs = <<>> THEN <<>>
  ELSE LET free == CheckStorage(Head(bs), failed)
       IN (IF free > 0 THEN <<[free |-> free, bucket |-> Head(bs)]>> ELSE <<>>)
          \o Snapshot(Tail(bs), failed)

RECURSIVE TotalFree(_, _)
\* total_free: the sum of the free bytes the queries report
TotalFree(bs, failed) ==
  IF bs = <<>> THEN 0 ELSE CheckStorage(Head(bs), failed) + TotalFree(Tail(bs), failed)

\* what the queries of one snapshot report, bucket by bucket in listing order
Reported(bs, failed) == [i \in 1..Len(bs) |-> CheckStorage(bs[i], failed)]

\* the pre-flight check left out
NoPreflight(total_free, file_size) == FALSE

\* 'if total_free < file_size: return'
NotEnoughSpace(total_free, file_size) == total_free < file_size

\* 'if free_space[0][0] >= file_size': the whole-file path
FitsWhole(free_space, file_size) == free_space[1].free >= file_size

\* lines 165-187: snapshot, pre-flight check, choice of the path
StartUpload(p, file_name, content, failed) ==
  /\ ~Active(p)
  /\ nUploads < MaxUploads
  /\ nUploads' = nUploads + 1
  /\ dl' = NoDownload
  /\ LET file_size == Len(content)
         total_free == TotalFree(tokens, failed)
         snap == Snapshot(tokens, failed)
         free_space == SortDescending(snap)
         base == [IdleUp EXCEPT !.file_name = file_name, !.content = content,
                                !.file_size = file_size, !.total_free = total_free,
                                !.snapshot = Reported(tokens, failed)]
     IN up' = [up EXCEPT ![p] =
          IF NotEnoughSpace(total_free, file_size)
            THEN [base EXCEPT !.pc = "done", !.outcome = "NotEnoughSpace",
                              !.free_space = snap]
          ELSE IF free_space = <<>>
            THEN [base EXCEPT !.pc = "done", !.outcome = "IndexError"]
          ELSE IF FitsWhole(free_space, file_size)
            THEN [base EXCEPT !.pc = "whole", !.free_space = free_space]
          ELSE [base EXCEPT !.pc = "loop", !.free_space = free_space]]
  /\ UNCHANGED <<tokens, realFree, drive, metaFile, extUsed>>

\* service.files().create(...): one more object on the bucket
CreateObject(b, name, data) ==
  /\ drive' = [drive EXCEPT ![b] = Append(@, [name |-> name, data |-> data])]
  /\ realFree' = [realFree EXCEPT ![b] = @ - Len(data)]

\* lines 188-192: the file as one object on the bucket with the most free space
WriteWhole(p, ioError) ==
  /\ up[p].pc = "whole"
  /\ LET u == up[p]
         best_bucket == u.free_space[1].bucket
     IN IF ioError \/ u.file_size > realFree[best_bucket]
          THEN /\ up' = [up EXCEPT ![p].pc = "done", ![p].outcome = "HttpError"]
               /\ UNCHANGED <<drive, realFree>>
          ELSE /\ CreateObject(best_bucket, u.file_name, u.content)
               /\ up' = [up EXCEPT ![p].pc = "meta_read",
                     ![p].chunks = Append(@, [chunk_name |-> u.file_name,
                                              file_id |-> Len(drive[best_bucket]) + 1,
                                              bucket |-> best_bucket])]
  /\ UNCHANGED <<tokens, metaFile, dl, nUploads, extUsed>>

\* lines 204-208: the first entry of the sorted table with free > 0, or 0
SelectIndex(free_space) ==
  IF \E i \in 1..Len(free_space) : free_space[i].free > 0
    THEN CHOOSE i \in 1..Len(free_space) :
           /\ free_space[i].free > 0
           /\ \A j \in 1..(i - 1) : free_space[j].free <= 0
    ELSE 0

\* the file read from its start for every chunk
FileReadFromStart(content, filepos, chunk_size) ==
  SubSeq(content, 1, Min(chunk_size, Len(content)))

\* file.read(chunk_size) at the current position of the open file
FileRead(content, filepos, chunk_size) ==
  SubSeq(content, filepos + 1, Min(filepos + chunk_size, Len(content)))

\* the break taken for the end of the placement loop: on to the metadata
QuotaExceededFallsThrough(u, sorted, selected_index, nread) ==
  [u EXCEPT !.pc = "meta_read",
            !.free_space = [sorted EXCEPT ![selected_index].free = 0],
            !.filepos = @ + nread]

\* lines 227-237: storageQuotaExceeded marks the bucket full and breaks out of
\* the retry loop with file_id still None, so RuntimeError is raised
QuotaExceeded(u, sorted, selected_index, nread) ==
  [u EXCEPT !.pc = "done", !.outcome = "RuntimeError",
            !.free_space = [sorted EXCEPT ![selected_index].free = 0],
            !.filepos = @ + nread]

\* chunks of one byte each
OneByte(bucket_free, remaining) == 1

\* 'chunk_size = min(free_space[selected_index][0], file_size - offset)'
ChunkSize(bucket_free, remaining) == Min(bucket_free, remaining)

\* the live table left as it was after a chunk is written
NoDecrement(free_space, selected_index, chunk_size) == free_space

\* 'free_space[selected_index][0] -= chunk_size'
Decrement(free_space, selected_index, chunk_size) ==
  [free_space EXCEPT ![selected_index].free = @ - chunk_size]

\* lines 197-249: one iteration of the placement loop
ChunkStep(p, ioError) ==
  /\ up[p].pc = "loop"
  /\ LET u == up[p]
         sorted == SortAscending(u.free_space)
         selected_index == SelectIndex(sorted)
     IN IF u.offset >= u.file_size
          THEN /\ up' = [up EXCEPT ![p].pc = "meta_read"]
               /\ UNCHANGED <<drive, realFree>>
        ELSE IF selected_index = 0
          THEN /\ up' = [up EXCEPT ![p].pc = "meta_read", ![p].free_space = sorted]
               /\ UNCHANGED <<drive, realFree>>
        ELSE
          LET selected_bucket == sorted[selected_index].bucket
              chunk_size == ChunkSize(sorted[selected_index].free, u.file_size - u.offset)
              data == FileRead(u.content, u.filepos, chunk_size)
          IN IF ioError
               THEN /\ up' = [up EXCEPT ![p].pc = "done", ![p].outcome = "HttpError",
                                        ![p].free_space = sorted,
                                        ![p].filepos = @ + Len(data)]
                    /\ UNCHANGED <<drive, realFree>>
             ELSE IF Len(data) > realFree[selected_bucket]
               THEN /\ up' = [up EXCEPT ![p] =
                              QuotaExceeded(u, sorted, selected_index, Len(data))]
                    /\ UNCHANGED <<drive, realFree>>
             ELSE /\ CreateObject(selected_bucket,
                                  ChunkName(u.file_name, u.chunk_index), data)
                  /\ up' = [up EXCEPT
                        ![p].chunks = Append(@,
                            [chunk_name |-> ChunkName(u.file_name, u.chunk_index),
                             file_id |-> Len(drive[selected_bucket]) + 1,
                             bucket |-> selected_bucket]),
                        ![p].free_space = Decrement(sorted, selected_index, chunk_size),
                        ![p].offset = @ + chunk_size,
                        ![p].chunk_index = @ + 1,
                        ![p].filepos = @ + Len(data)]
  /\ UNCHANGED <<tokens, metaFile, dl, nUploads, extUsed>>

\* json.load without the except clause: JSONDecodeError ends the upload
MetaReadNoCatch(p) ==
  /\ up[p].pc = "meta_read"
  /\ up' = [up EXCEPT ![p] =
        IF LoadBranch(metaFile) = "corrupt"
          THEN [@ EXCEPT !.pc = "done", !.outcome = "JSONDecodeError"]
          ELSE [@ EXCEPT !.pc = "meta_write", !.loaded = LoadBranch(metaFile),
                         !.existing = LoadExisting(metaFile)]]
  /\ UNCHANGED <<tokens, realFree, drive, metaFile, dl, nUploads, extUsed>>

\* lines 252-262: read metadata.json
MetaRead(p) ==
  /\ up[p].pc = "meta_read"
  /\ up' = [up EXCEPT ![p].pc = "meta_write", ![p].loaded = LoadBranch(metaFile),
                      ![p].existing = LoadExisting(metaFile)]
  /\ UNCHANGED <<tokens, realFree, drive, metaFile, dl, nUploads, extUsed>>

\* metadata.json rewritten with the new record alone
MetaWriteOverwrite(p) ==
  /\ up[p].pc = "meta_write"
  /\ LET record == [file_name |-> up[p].file_name, chunks |-> up[p].chunks]
     IN metaFile' = MetaList(<<record>>)
  /\ up' = [up EXCEPT ![p].pc = "done", ![p].outcome = "complete"]
  /\ UNCHANGED <<tokens, realFree, drive, dl, nUploads, extUsed>>

\* lines 264-268: append the record and rewrite metadata.json
MetaWrite(p) ==
  /\ up[p].pc = "meta_write"
  /\ LET record == [file_name |-> up[p].file_name, chunks |-> up[p].chunks]
     IN metaFile' = MetaList(Append(up[p].existing, record))
  /\ up' = [up EXCEPT ![p].pc = "done", ![p].outcome = "complete"]
  /\ UNCHANGED <<tokens, realFree, drive, dl, nUploads, extUsed>>

\* the bucket of the next files().create of an upload, or 0
NextTarget(p) ==
  LET u == up[p]
      sorted == SortAscending(u.free_space)
  IN IF u.pc = "whole" THEN u.free_space[1].bucket
     ELSE IF u.pc = "loop" /\ u.offset < u.file_size /\ SelectIndex(sorted) # 0
       THEN sorted[SelectIndex(sorted)].bucket
     ELSE 0

\* the snapshot goes stale: another application of the account's owner
\* stores a byte on the bucket an upload is about to write to
ExternalUsage(b) ==
  /\ \E p \in Procs : NextTarget(p) = b
  /\ extUsed < MaxExternal
  /\ realFree[b] > 0
  /\ realFree' = [realFree EXCEPT ![b] = @ - 1]
  /\ extUsed' = extUsed + 1
  /\ UNCHANGED <<tokens, drive, metaFile, up, dl, nUploads>>

\* ------------------------------------------------ the save_path directory
\* a directory is a set of [name, data] with one entry per name
HasFile(files, name) == \E f \in files : f.name = name
ReadFile(files, name) == (CHOOSE f \in files : f.name = name).data
WriteFile(files, name, data) ==
  {f \in files : f.name # name} \cup {[name |-> name, data |-> data]}
RemoveFile(files, name) == {f \in files : f.name # name}

FetchModes == {"before_open", "mid_stream"}

\* what goes wrong in a download: nothing, or fetch number 'at' in way 'mode'
FetchFailures ==
  {[at |-> 0, mode |-> "ok"]}
    \cup {[at |-> k, mode |-> m] : k \in 1..MaxFailAt, m \in FetchModes}

\* download_file: the object is saved under its remote name; any exception
\* gives None, and one raised while streaming leaves the file just opened
DownloadFile(b, file_id, files, mode) ==
  IF file_id \notin 1..Len(drive[b]) \/ mode = "before_open"
    THEN [ok |-> FALSE, path |-> <<>>, files |-> files]
  ELSE IF mode = "mid_stream"
    THEN [ok |-> FALSE, path |-> <<>>,
          files |-> WriteFile(files, drive[b][file_id].name, <<>>)]
  ELSE [ok |-> TRUE, path |-> drive[b][file_id].name,
        files |-> WriteFile(files, drive[b][file_id].name, drive[b][file_id].data)]

FetchMode(call, failAt, mode) == IF call = failAt THEN mode ELSE "ok"

RECURSIVE MergeInto(_, _, _, _)
\* the loop of merge_chunks over the sorted paths
MergeInto(paths, i, merged_file_path, files) ==
  IF i > Len(paths) THEN files
  ELSE MergeInto(paths, i + 1, merged_file_path,
         WriteFile(files, merged_file_path,
                   ReadFile(files, merged_file_path) \o ReadFile(files, paths[i])))

\* merge_chunks: open(merged_file_path, "wb"), then 'for chunk_path in sorted(file_paths)'
MergeOrder(file_paths) == SortedNames(file_paths)
MergeChunks(file_paths, merged_file_path, files) ==
  MergeInto(MergeOrder(file_paths), 1, merged_file_path,
            WriteFile(files, merged_file_path, <<>>))

RECURSIVE RemoveAll(_, _, _)
\* 'for path in chunk_paths: os.remove(path)'; a missing path raises
RemoveAll(paths, i, files) ==
  IF i > Len(paths) THEN [crashed |-> FALSE, files |-> files]
  ELSE IF ~HasFile(files, paths[i]) THEN [crashed |-> TRUE, files |-> files]
  ELSE RemoveAll(paths, i + 1, RemoveFile(files, paths[i]))

MergeAndRemove(chunk_paths, merged_path, files, via, ok, calls) ==
  LET merged == MergeChunks(chunk_paths, merged_path, files)
      removed == RemoveAll(chunk_paths, 1, merged)
  IN [via |-> via, result |-> IF removed.crashed THEN "FileNotFoundError" ELSE ok,
      files |-> removed.files, calls |-> calls]

\* the record of that name that was appended last, or 0
LastMatch(recs, file_name) ==
  IF \E i \in 1..Len(recs) : recs[i].file_name = file_name
    THEN CHOOSE i \in 1..Len(recs) :
           /\ recs[i].file_name = file_name
           /\ \A j \in (i + 1)..Len(recs) : recs[j].file_name # file_name
    ELSE 0

\* the first record of that name, or 0
FirstMatch(recs, file_name) ==
  IF \E i \in 1..Len(recs) : recs[i].file_name = file_name
    THEN CHOOSE i \in 1..Len(recs) :
           /\ recs[i].file_name = file_name
           /\ \A j \in 1..(i - 1) : recs[j].file_name # file_name
    ELSE 0

RECURSIVE FetchChunksSkipping(_, _, _, _, _, _)
\* the chunks fetched as the scan fetches its parts: a failed one is skipped
FetchChunksSkipping(chunks, i, files, paths, failAt, mode) ==
  IF i > Len(chunks) THEN [failed |-> FALSE, files |-> files, paths |-> paths]
  ELSE LET r == DownloadFile(chunks[i].bucket, chunks[i].file_id, files,
                             FetchMode(i, failAt, mode))
       IN FetchChunksSkipping(chunks, i + 1, r.files,
                              IF r.ok THEN Append(paths, r.path) ELSE paths,
                              failAt, mode)

RECURSIVE FetchChunks(_, _, _, _, _, _)
\* lines 321-328: fetch the chunks in the record's order, stop at a failure
FetchChunks(chunks, i, files, paths, failAt, mode) ==
  IF i > Len(chunks) THEN [failed |-> FALSE, files |-> files, paths |-> paths]
  ELSE LET r == DownloadFile(chunks[i].bucket, chunks[i].file_id, files,
                             FetchMode(i, failAt, mode))
       IN IF r.ok THEN FetchChunks(chunks, i + 1, r.files, Append(paths, r.path),
                                   failAt, mode)
          ELSE [failed |-> TRUE, files |-> r.files, paths |-> paths]

\* q = "name contains '...'": the name has the text as a substring
Contains(name, text) ==
  \E k \in 0..(Len(name) - Len(text)) : SubSeq(name, k + 1, k + Len(text)) = text

RECURSIVE InsertPart(_, _, _)
InsertPart(b, sorted, id) ==
  IF sorted = <<>> THEN <<id>>
  ELSE IF LexLess(drive[b][id].name, drive[b][Head(sorted)].name) THEN <<id>> \o sorted
  ELSE <<Head(sorted)>> \o InsertPart(b, Tail(sorted), id)

RECURSIVE SortParts(_, _)
\* sorted(parts, key=lambda x: x['name']) over the ids of a bucket: stable
SortParts(b, ids) ==
  IF ids = <<>> THEN <<>>
  ELSE InsertPart(b, SortParts(b, SubSeq(ids, 1, Len(ids) - 1)), ids[Len(ids)])

\* files().list(q=...): the matching objects of a bucket, in creation order
Listing(ids) ==
  [r \in 1..Cardinality(ids) |->
     CHOOSE i \in ids : Cardinality({j \in ids : j < i}) = r - 1]

RECURSIVE FetchParts(_, _, _, _, _, _, _, _)
\* lines 365-368: fetch every part, skip the ones that fail
FetchParts(b, parts, i, calls, files, paths, failAt, mode) ==
  IF i > Len(parts) THEN [files |-> files, paths |-> paths]
  ELSE LET r == DownloadFile(b, parts[i], files, FetchMode(calls + i, failAt, mode))
       IN FetchParts(b, parts, i + 1, calls, r.files,
                     IF r.ok THEN Append(paths, r.path) ELSE paths, failAt, mode)

RECURSIVE ScanBuckets(_, _, _, _, _, _)
\* lines 350-375: the scan of the buckets by name
ScanBuckets(bi, calls, file_name, files, failAt, mode) ==
  IF bi > Len(tokens)
    THEN [via |-> "scan", result |-> "not_found", files |-> files, calls |-> calls]
  ELSE
    LET b == tokens[bi]
        exact == Listing({i \in 1..Len(drive[b]) : drive[b][i].name = file_name})
        parts == SortParts(b, Listing({i \in 1..Len(drive[b]) :
                                 Contains(drive[b][i].name, file_name \o PartSuffix)}))
    IN IF exact # <<>>
         THEN [via |-> "scan", result |-> "scan_single",
               files |-> DownloadFile(b, exact[1], files,
                                      FetchMode(calls + 1, failAt, mode)).files,
               calls |-> calls + 1]
       ELSE IF parts # <<>>
         THEN LET f == FetchParts(b, parts, 1, calls, files, <<>>, failAt, mode)
              IN IF f.paths # <<>>
                   THEN MergeAndRemove(f.paths, file_name, f.files, "scan", "scan_merged",
                                       calls + Len(parts))
                 ELSE ScanBuckets(bi + 1, calls + Len(parts), file_name, f.files,
                                  failAt, mode)
       ELSE ScanBuckets(bi + 1, calls, file_name, files, failAt, mode)

\* the lookup falling back to the scan when a chunk cannot be fetched
LookupThenScan(file_name, files, failAt, mode) ==
  LET recs == metaFile.recs
      chunks == recs[FirstMatch(recs, file_name)].chunks
      f == FetchChunks(chunks, 1, files, <<>>, failAt, mode)
  IN IF Len(chunks) = 1 /\ chunks[1].chunk_name = file_name
       THEN [via |-> "metadata", result |-> "single",
             files |-> DownloadFile(chunks[1].bucket, chunks[1].file_id, files,
                                    FetchMode(1, failAt, mode)).files,
             calls |-> 1]
     ELSE IF f.failed
       THEN ScanBuckets(1, Len(f.paths) + 1, file_name, f.files, failAt, mode)
     ELSE MergeAndRemove(SortedNames(f.paths), file_name, f.files,
                         "metadata", "merged", Len(chunks))

\* download_using_metadata
DownloadUsingMetadata(file_name, files, failAt, mode) ==
  LET recs == metaFile.recs
      chunks == recs[FirstMatch(recs, file_name)].chunks
  IN IF Len(chunks) = 1 /\ chunks[1].chunk_name = file_name
       THEN LET r == DownloadFile(chunks[1].bucket, chunks[1].file_id, files,
                                  FetchMode(1, failAt, mode))
            IN [via |-> "metadata", result |-> "single", files |-> r.files, calls |-> 1]
     ELSE LET f == FetchChunks(chunks, 1, files, <<>>, failAt, mode)
          IN IF f.failed
               THEN [via |-> "metadata", result |-> "chunk_failed", files |-> f.files,
                     calls |-> Len(f.paths) + 1]
             ELSE MergeAndRemove(SortedNames(f.paths), file_name, f.files,
                                 "metadata", "merged", Len(chunks))

\* metadata.json opened for writing by the download: it is left empty
DownloadTruncating(file_name, fail) ==
  /\ \A p \in Procs : ~Active(p)
  /\ LET r == IF metaFile.kind = "list" /\ FirstMatch(metaFile.recs, file_name) # 0
                THEN DownloadUsingMetadata(file_name, {}, fail.at, fail.mode)
                ELSE ScanBuckets(1, 0, file_name, {}, fail.at, fail.mode)
     IN dl' = [file_name |-> file_name, via |-> r.via, result |-> r.result,
               fetch_failed |-> fail.at \in 1..r.calls, files |-> r.files]
  /\ metaFile' = IF metaFile.kind = "missing" THEN metaFile ELSE MetaEmpty
  /\ UNCHANGED <<tokens, realFree, drive, up, nUploads, extUsed>>

\* download_from_all_buckets into a save_path that is empty at the call
Download(file_name, fail) ==
  /\ \A p \in Procs : ~Active(p)
  /\ LET failAt == fail.at
         mode == fail.mode
         r == IF metaFile.kind = "list" /\ FirstMatch(metaFile.recs, file_name) # 0
                THEN DownloadUsingMetadata(file_name, {}, failAt, mode)
                ELSE ScanBuckets(1, 0, file_name, {}, failAt, mode)
     IN dl' = [file_name |-> file_name, via |-> r.via, result |-> r.result,
               fetch_failed |-> failAt \in 1..r.calls, files |-> r.files]
  /\ UNCHANGED <<tokens, realFree, drive, metaFile, up, nUploads, extUsed>>

\* ------------------------------------------------------------------- Init
BucketIds == 1..ManyBuckets

InitPool(n, free) ==
  /\ tokens = [i \in 1..n |-> i]
  /\ realFree = [b \in BucketIds |-> IF b <= n THEN free[b] ELSE 0]

InitEnumerated ==
  \E n \in 0..MaxBuckets : \E free \in [1..n -> 0..MaxFree] : InitPool(n, free)

InitScenario ==
  InitPool(2, [b \in 1..2 |-> IF b = 1 THEN ScenarioFreeA ELSE ScenarioFreeB])

InitMany == InitPool(ManyBuckets, [b \in 1..ManyBuckets |-> 1])

Init ==
  /\ \/ /\ InitEnumerated \/ InitScenario
        /\ metaFile \in {MetaMissing, MetaEmpty, MetaCorrupt, MetaList(<<>>)}
     \/ /\ InitMany
        /\ metaFile = MetaMissing
  /\ drive = [b \in BucketIds |-> <<>>]
  /\ up = [p \in Procs |-> IdleUp]
  /\ dl = NoDownload
  /\ nUploads = 0
  /\ extUsed = 0

\* the buckets whose storage query fails in one snapshot: none, or the first
QueryFailures == {{}} \cup {{tokens[i]} : i \in 1..Min(Len(tokens), 1)}

UploadStep(p) ==
  \/ \E file_name \in FileNames, content \in LocalFiles, failed \in QueryFailures :
       StartUpload(p, file_name, content, failed)
  \/ \E ioError \in BOOLEAN : WriteWhole(p, ioError)
  \/ \E ioError \in BOOLEAN : ChunkStep(p, ioError)
  \/ MetaRead(p)
  \/ MetaWrite(p)

Next ==
  \/ \E p \in SeqProcs : UploadStep(p)
  \/ \E b \in BucketIds : ExternalUsage(b)
  \/ \E file_name \in FileNames, fail \in FetchFailures : Download(file_name, fail)

Spec == Init /\ [][Next]_vars

\* two runs of the program upload at the same time; they share the pool and
\* metadata.json, and each makes the snapshot of the other go stale
NextConc == \E p \in Procs : UploadStep(p)

\* the concurrent runs start from the enumerated pools
InitConc == Init /\ Len(tokens) <= MaxBuckets /\ \A b \in BucketIds : realFree[b] <= MaxFree

SpecConc == InitConc /\ [][NextConc]_vars

\* ----------------------------------------------------------------- claims
Completed(p) == up[p].outcome = "complete"
Record(p) == [file_name |-> up[p].file_name, chunks |-> up[p].chunks]
ChunkData(c) == drive[c.bucket][c.file_id].data

RECURSIVE ConcatChunks(_)
ConcatChunks(chunks) ==
  IF chunks = <<>> THEN <<>> ELSE ChunkData(Head(chunks)) \o ConcatChunks(Tail(chunks))

RECURSIVE CoversFrom(_, _, _)
\* the chunks are the consecutive byte ranges of content that begin at start
CoversFrom(chunks, start, content) ==
  IF chunks = <<>> THEN start = Len(content)
  ELSE LET data == ChunkData(Head(chunks))
       IN /\ start + Len(data) <= Len(content)
          /\ data = SubSeq(content, start + 1, start + Len(data))
          /\ CoversFrom(Tail(chunks), start + Len(data), content)

\* C1: after a completed upload of a file, a download of its name in which no
\* fetch fails, the metadata holding no earlier record of the name, leaves the
\* file in save_path under its name with exactly the bytes that were uploaded,
\* whatever the number of chunks.
C1_RoundTrip ==
  \A p \in Procs :
    ( /\ Completed(p)
      /\ dl.result # "none"
      /\ dl.file_name = up[p].file_name
      /\ ~dl.fetch_failed
      /\ metaFile.kind = "list"
      /\ FirstMatch(metaFile.recs, up[p].file_name) = Len(metaFile.recs)
      /\ metaFile.recs[Len(metaFile.recs)] = Record(p) )
    => /\ HasFile(dl.files, up[p].file_name)
       /\ ReadFile(dl.files, up[p].file_name) = up[p].content

\* C2: the chunks of the record a completed upload appended, in stored
\* order, are consecutive byte ranges of the file from offset 0, without gap or
\* overlap, and their sizes add up to the file size.
C2_Coverage ==
  \A p \in SeqProcs :
    Completed(p) =>
      /\ metaFile.kind = "list"
      /\ metaFile.recs # <<>>
      /\ metaFile.recs[Len(metaFile.recs)] = Record(p)
      /\ up[p].chunks # <<>>
      /\ CoversFrom(up[p].chunks, 0, up[p].content)

C2_Witness ==
  \E p \in SeqProcs :
    /\ Completed(p)
    /\ Len(up[p].chunks) >= 3
    /\ \A i \in 1..Len(up[p].chunks) : ChunkData(up[p].chunks[i]) # <<>>

\* C3: an upload whose snapshot sums to fewer free bytes than the file size
\* ends at the pre-flight check, and no step taken while it is the current
\* upload creates a remote object or changes metadata.json.
C3_Preflight ==
  [][\A p \in Procs :
       (up'[p].pc # "idle" /\ up'[p].total_free < up'[p].file_size)
       => /\ up'[p].pc = "done"
          /\ up'[p].outcome = "NotEnoughSpace"
          /\ up'[p].chunks = <<>>
          /\ drive' = drive
          /\ metaFile' = metaFile]_vars

C3_Witness ==
  \E p \in SeqProcs :
    /\ up[p].outcome = "NotEnoughSpace"
    /\ up[p].total_free > 0
    /\ up[p].total_free < up[p].file_size
    /\ \A b \in BucketIds : drive[b] = <<>>

\* C4: an upload that met a quota rejection of a chunk write ends without
\* completing only if the buckets left in the live table cannot hold the bytes
\* that remain; otherwise it retries the range on the next bucket and goes on.
C4_QuotaFailover ==
  \A p \in Procs :
    up[p].outcome = "RuntimeError"
    => SumFree(up[p].free_space) < up[p].file_size - up[p].offset

\* C5: after two concurrent uploads of files with distinct names have both
\* completed, metadata.json holds a record for each of the two names.
C5_NoLostUpdate ==
  ( /\ \A p \in Procs : Completed(p)
    /\ up[1].file_name # up[2].file_name )
  => \A p \in Procs :
       metaFile.kind = "list" /\ FirstMatch(metaFile.recs, up[p].file_name) # 0

\* C6: a download that reassembles a multi-chunk record writes the
\* concatenation of the chunks in the record's stored order (part1, part2, ...,
\* part11), not in the order of the chunk names as strings.
C6_NumericOrder ==
  (dl.via = "metadata" /\ dl.result = "merged")
  => /\ HasFile(dl.files, dl.file_name)
     /\ ReadFile(dl.files, dl.file_name)
          = ConcatChunks(metaFile.recs[FirstMatch(metaFile.recs, dl.file_name)].chunks)

\* the entry of a bucket in a free-space table
Entry(free_space, b) ==
  free_space[CHOOSE i \in 1..Len(free_space) : free_space[i].bucket = b]

C7_Rule ==
  \A p \in Procs :
    (up[p].pc = "loop" /\ Len(up'[p].chunks) = Len(up[p].chunks) + 1)
    => LET c == up'[p].chunks[Len(up'[p].chunks)]
           e == Entry(up[p].free_space, c.bucket)
       IN /\ e.free > 0
          /\ \A j \in 1..Len(up[p].free_space) :
               up[p].free_space[j].free > 0 => e.free <= up[p].free_space[j].free
          /\ Len(drive'[c.bucket][c.file_id].data)
               = Min(e.free, up[p].file_size - up[p].offset)

C7_Scenario ==
  \A p \in Procs :
    ( /\ Completed(p)
      /\ up[p].snapshot = <<ScenarioFreeA, ScenarioFreeB>>
      /\ up[p].file_size = ScenarioSize )
    => /\ Len(up[p].chunks) = 2
       /\ up[p].chunks[1].bucket = 2
       /\ up[p].chunks[1].chunk_name = ChunkName(up[p].file_name, 0)
       /\ ChunkData(up[p].chunks[1]) = SubSeq(up[p].content, 1, ScenarioFreeB)
       /\ up[p].chunks[2].bucket = 1
       /\ up[p].chunks[2].chunk_name = ChunkName(up[p].file_name, 1)
       /\ ChunkData(up[p].chunks[2])
            = SubSeq(up[p].content, ScenarioFreeB + 1, ScenarioSize)

\* C7: every chunk of the chunked path goes to the bucket whose entry in the
\* live table is the smallest one above 0 and has min(that entry, bytes
\* remaining) bytes; with A free 10, B free 5 and a file of 12 bytes the record
\* is chunk 1 of 5 bytes on B, then chunk 2 of 7 bytes on A.
C7_DrainSmallestFirst == [][C7_Rule]_vars /\ []C7_Scenario

C7_Witness ==
  \E p \in SeqProcs :
    /\ Completed(p)
    /\ up[p].snapshot = <<ScenarioFreeA, ScenarioFreeB>>
    /\ up[p].file_size = ScenarioSize
    /\ Len(up[p].chunks) = 2

\* the largest free space a snapshot reports
IsLargest(snapshot, i) == \A j \in 1..Len(snapshot) : snapshot[j] <= snapshot[i]

\* C8: an upload whose snapshot shows a bucket with free space >= the file
\* size takes the whole-file path: it writes nothing but the one object, on a
\* bucket of the largest free space, and its record has that one chunk.
C8_WholeFile ==
  \A p \in Procs :
    (up[p].pc # "idle" /\ \E i \in 1..Len(up[p].snapshot) : up[p].snapshot[i] >= up[p].file_size)
    => /\ up[p].pc \in {"whole", "meta_read", "meta_write", "done"}
       /\ up[p].outcome \in {"none", "HttpError", "complete"}
       /\ Len(up[p].chunks) <= 1
       /\ Completed(p) => Len(up[p].chunks) = 1
       /\ \A k \in 1..Len(up[p].chunks) :
            LET c == up[p].chunks[k]
            IN /\ \E i \in 1..Len(tokens) :
                    tokens[i] = c.bucket /\ IsLargest(up[p].snapshot, i)
               /\ c.chunk_name = up[p].file_name
               /\ drive[c.bucket][c.file_id]
                    = [name |-> up[p].file_name, data |-> up[p].content]

BadDoc(doc) == doc.kind \in {"missing", "empty", "corrupt"}

C9_Upload ==
  \A p \in Procs :
    /\ (up[p].pc = "meta_read" /\ up'[p] # up[p] /\ BadDoc(metaFile))
       => (up'[p].pc = "meta_write" /\ up'[p].existing = <<>>)
    /\ (up[p].pc = "meta_write" /\ up'[p] # up[p] /\ BadDoc(metaFile))
       => (up'[p].outcome = "complete" /\ metaFile' = MetaList(<<Record(p)>>))

C9_Download ==
  /\ (dl.result # "none" /\ BadDoc(metaFile)) => dl.via = "scan"
  /\ \A p \in SeqProcs :
       (Completed(p) /\ up[p].loaded \in {"absent", "corrupt"})
       => /\ metaFile = MetaList(<<Record(p)>>)
          /\ (dl.result # "none" /\ dl.file_name = up[p].file_name)
             => dl.via = "metadata"

\* C9: a missing, empty or unparsable metadata.json is read as the empty
\* list; the upload that reads it goes on and leaves a list holding exactly its
\* own record, and a download of that name then goes through that record.
C9_CorruptionResilience == [][C9_Upload]_vars /\ []C9_Download

C9_Witness ==
  \E p \in SeqProcs :
    /\ Completed(p)
    /\ up[p].loaded = "corrupt"
    /\ dl.file_name = up[p].file_name
    /\ dl.via = "metadata"
    /\ metaFile = MetaList(<<Record(p)>>)

Failed(p) == up[p].outcome \in {"HttpError", "RuntimeError"}

C10_Append ==
  metaFile' # metaFile
  => \E p \in Procs :
       /\ up[p].pc = "meta_write"
       /\ up'[p].outcome = "complete"
       /\ ConcatChunks(up[p].chunks) = up[p].content
       /\ metaFile'.kind = "list"
       /\ Len(metaFile'.recs) = Len(LoadExisting(metaFile)) + 1
       /\ metaFile'.recs[Len(metaFile'.recs)] = Record(p)

C10_Orphans ==
  \A p \in Procs :
    Failed(p) =>
      \A k \in 1..Len(up[p].chunks) :
        LET c == up[p].chunks[k]
        IN /\ c.file_id \in 1..Len(drive[c.bucket])
           /\ drive[c.bucket][c.file_id].name = c.chunk_name
           /\ \A i \in 1..Len(metaFile.recs) :
                \A j \in 1..Len(metaFile.recs[i].chunks) :
                  ~ /\ metaFile.recs[i].chunks[j].bucket = c.bucket
                    /\ metaFile.recs[i].chunks[j].file_id = c.file_id

\* C10: metadata.json changes only in the last step of an upload that has
\* placed every byte of its file, and then by exactly one record; an upload
\* that stopped at a failed write appended none, so the chunks it wrote are on
\* their buckets and in no record.
C10_NoPartialRecord == [][C10_Append]_vars /\ []C10_Orphans

C10_Witness ==
  \E p \in SeqProcs :
    /\ up[p].outcome = "RuntimeError"
    /\ Len(up[p].chunks) >= 1
    /\ up[p].offset < up[p].file_size

\* the record of a name that was appended first, as an index of the list
IsFirstOfName(recs, i, file_name) ==
  /\ recs[i].file_name = file_name
  /\ \A j \in 1..(i - 1) : recs[j].file_name # file_name

\* two byte sequences hold the same bytes (the bytes of a file are distinct)
SameBytes(a, b) ==
  /\ Len(a) = Len(b)
  /\ {a[x] : x \in 1..Len(a)} = {b[x] : x \in 1..Len(b)}

\* C11: when metadata.json holds records of the requested name, what a
\* download leaves in save_path comes from the chunks of the record of that
\* name that was appended first: a download without a failed fetch yields the
\* bytes of that record's chunks, and every other file left behind is one of
\* that record's chunks or an empty file of a fetch that broke off.
C11_FirstMatch ==
  (dl.via = "metadata")
  => \A i \in 1..Len(metaFile.recs) :
       IsFirstOfName(metaFile.recs, i, dl.file_name)
       => LET first == metaFile.recs[i].chunks
          IN /\ ~dl.fetch_failed
                => /\ HasFile(dl.files, dl.file_name)
                   /\ SameBytes(ReadFile(dl.files, dl.file_name), ConcatChunks(first))
             /\ \A f \in dl.files :
                  \/ f.data = <<>>
                  \/ \E k \in 1..Len(first) :
                       f.name = first[k].chunk_name /\ f.data = ChunkData(first[k])
                  \/ /\ f.name = dl.file_name
                     /\ SameBytes(f.data, ConcatChunks(first))

C11_Witness ==
  /\ dl.via = "metadata"
  /\ ~dl.fetch_failed
  /\ \E i, j \in 1..Len(metaFile.recs) :
       /\ i < j
       /\ IsFirstOfName(metaFile.recs, i, dl.file_name)
       /\ metaFile.recs[j].file_name = dl.file_name
       /\ ~SameBytes(ConcatChunks(metaFile.recs[i].chunks),
                     ConcatChunks(metaFile.recs[j].chunks))
       /\ ReadFile(dl.files, dl.file_name) = ConcatChunks(metaFile.recs[i].chunks)

\* the objects of the pool with exactly that name, and the parts of that name
ExactObjects(file_name) ==
  {<<tokens[t], i>> : t \in 1..Len(tokens), i \in 1..MaxUploads * ManyBuckets}
    \cap {<<b, i>> \in BucketIds \X (1..MaxUploads * ManyBuckets) :
            i <= Len(drive[b]) /\ drive[b][i].name = file_name}
PartObjects(file_name) ==
  {<<tokens[t], i>> : t \in 1..Len(tokens), i \in 1..MaxUploads * ManyBuckets}
    \cap {<<b, i>> \in BucketIds \X (1..MaxUploads * ManyBuckets) :
            i <= Len(drive[b]) /\ Contains(drive[b][i].name, file_name \o PartSuffix)}

\* C12: a download that goes through the scan and in which no fetch fails
\* leaves the object named file_name if any bucket has one; otherwise, if any
\* bucket has parts of that name, it leaves a file under file_name that holds
\* the bytes of every part on every bucket.
C12_ScanComplete ==
  (dl.via = "scan" /\ ~dl.fetch_failed)
  => IF ExactObjects(dl.file_name) # {}
       THEN /\ HasFile(dl.files, dl.file_name)
            /\ \E o \in ExactObjects(dl.file_name) :
                 ReadFile(dl.files, dl.file_name) = drive[o[1]][o[2]].data
     ELSE PartObjects(dl.file_name) # {}
          => /\ HasFile(dl.files, dl.file_name)
             /\ \A o \in PartObjects(dl.file_name) :
                  Contains(ReadFile(dl.files, dl.file_name), drive[o[1]][o[2]].data)

\* C13: a download goes through the record exactly when metadata.json is a
\* list holding a record of the requested name, also when a fetch of one of the
\* record's chunks fails; the buckets are scanned by name only when
\* metadata.json is missing, empty, unparsable or holds no record of the name.
C13_LookupBeforeScan ==
  dl.result # "none"
  => /\ dl.via \in {"metadata", "scan"}
     /\ dl.via = "metadata"
        <=> /\ ~BadDoc(metaFile)
            /\ \E i \in 1..Len(metaFile.recs) : metaFile.recs[i].file_name = dl.file_name
     /\ dl.via = "metadata" => dl.result \in {"single", "merged", "chunk_failed", "FileNotFoundError"}
     /\ dl.via = "scan" => dl.result \in {"scan_single", "scan_merged", "not_found", "FileNotFoundError"}

\* a chunk of the record could not be fetched while the pool holds a part of
\* that name that a scan would find
C13_Witness ==
  /\ dl.via = "metadata"
  /\ dl.result = "chunk_failed"
  /\ dl.fetch_failed
  /\ \E i \in 1..Len(metaFile.recs) :
       /\ IsFirstOfName(metaFile.recs, i, dl.file_name)
       /\ \E o \in PartObjects(dl.file_name) :
            \A k \in 1..Len(metaFile.recs[i].chunks) :
              <<metaFile.recs[i].chunks[k].bucket, metaFile.recs[i].chunks[k].file_id>> # o

C14_Step ==
  metaFile.kind = "list"
  => /\ metaFile'.kind = "list"
     /\ Len(metaFile'.recs) \in {Len(metaFile.recs), Len(metaFile.recs) + 1}
     /\ SubSeq(metaFile'.recs, 1, Len(metaFile.recs)) = metaFile.recs
     /\ \A p \in SeqProcs :
          (up[p].pc = "meta_write" /\ up'[p].pc = "done")
          => metaFile'.recs = Append(metaFile.recs, Record(p))

\* C14: once metadata.json is a list of records, every step of the
\* (non-concurrent) program leaves it a list that begins with the same records
\* in the same order, and the last step of a successful upload makes it the
\* previous list followed by the upload's one record.
C14_AppendPreserves == [][C14_Step]_vars

C14_Witness ==
  \E p \in SeqProcs :
    /\ Completed(p)
    /\ up[p].loaded = "parsed"
    /\ up[p].existing # <<>>
    /\ metaFile = MetaList(Append(up[p].existing, Record(p)))
    /\ up[p].existing[1] # Record(p)

IsSingle(rec) == Len(rec.chunks) = 1 /\ rec.chunks[1].chunk_name = rec.file_name

\* the chunks before position k + 1 are in save_path in full, the chunk at
\* k + 1 is missing or broken off, and no later chunk was fetched
FetchedUpTo(chunks, k, files) ==
  /\ \A x \in 1..k :
       /\ HasFile(files, chunks[x].chunk_name)
       /\ ReadFile(files, chunks[x].chunk_name) = ChunkData(chunks[x])
  /\ HasFile(files, chunks[k + 1].chunk_name)
     => ReadFile(files, chunks[k + 1].chunk_name) = <<>>
  /\ \A x \in (k + 2)..Len(chunks) : ~HasFile(files, chunks[x].chunk_name)

\* C16: a download through a multi-chunk record in which the fetch of a chunk
\* fails ends as failed with no file under file_name in save_path, and the
\* chunk files fetched before the failure are still there.
C16_AllOrNothing ==
  \A i \in 1..Len(metaFile.recs) :
    ( /\ dl.via = "metadata"
      /\ dl.fetch_failed
      /\ IsFirstOfName(metaFile.recs, i, dl.file_name)
      /\ ~IsSingle(metaFile.recs[i]) )
    => /\ dl.result = "chunk_failed"
       /\ ~HasFile(dl.files, dl.file_name)
       /\ \E k \in 0..(Len(metaFile.recs[i].chunks) - 1) :
            FetchedUpTo(metaFile.recs[i].chunks, k, dl.files)

C16_Witness ==
  /\ dl.via = "metadata"
  /\ dl.result = "chunk_failed"
  /\ dl.fetch_failed
  /\ \E i \in 1..Len(metaFile.recs) :
       /\ IsFirstOfName(metaFile.recs, i, dl.file_name)
       /\ Len(metaFile.recs[i].chunks) >= 3
       /\ HasFile(dl.files, metaFile.recs[i].chunks[1].chunk_name)
       /\ ReadFile(dl.files, metaFile.recs[i].chunks[1].chunk_name) # <<>>
       /\ ~HasFile(dl.files, metaFile.recs[i].chunks[3].chunk_name)

\* an upload that passed the pre-flight check and met no failing write has,
\* once it is over, placed every byte and appended its one record
C17_Ends ==
  \A p \in SeqProcs :
    ( /\ up[p].pc = "done"
      /\ up[p].total_free >= up[p].file_size
      /\ ~Failed(p) )
    => /\ Completed(p)
       /\ ConcatChunks(up[p].chunks) = up[p].content
       /\ metaFile.kind = "list"
       /\ metaFile.recs = Append(up[p].existing, Record(p))

\* an iteration of the placement loop places at least one byte or ends the loop
C17_Progress ==
  \A p \in SeqProcs :
    (up[p].pc = "loop" /\ up'[p] # up[p])
    => \/ up'[p].pc # "loop"
       \/ /\ up'[p].offset > up[p].offset
          /\ up'[p].offset <= up[p].file_size

\* C17: for every file size >= 0 and every snapshot that passes the
\* pre-flight check, an upload without a failing write ends with all bytes
\* placed and exactly one record appended, and every iteration of the placement
\* loop strictly advances the offset or ends the loop.
C17_Terminates == [][C17_Progress]_vars /\ []C17_Ends

RECURSIVE PlacedOn(_, _)
\* the bytes the chunks of an upload put on bucket b
PlacedOn(chunks, b) ==
  IF chunks = <<>> THEN 0
  ELSE (IF Head(chunks).bucket = b THEN Len(ChunkData(Head(chunks))) ELSE 0)
       + PlacedOn(Tail(chunks), b)

\* the live table as a function of the bucket
FreeOf(free_space, b) ==
  IF \E i \in 1..Len(free_space) : free_space[i].bucket = b
    THEN Entry(free_space, b).free
    ELSE 0

C18_Table ==
  \A p \in Procs :
    /\ \A i \in 1..Len(up[p].free_space) : up[p].free_space[i].free >= 0
    /\ \A t \in 1..Len(up[p].snapshot) :
         PlacedOn(up[p].chunks, tokens[t]) <= up[p].snapshot[t]

C18_Decrement ==
  \A p \in Procs :
    (up[p].pc = "loop" /\ Len(up'[p].chunks) = Len(up[p].chunks) + 1)
    => LET c == up'[p].chunks[Len(up'[p].chunks)]
           size == Len(drive'[c.bucket][c.file_id].data)
       IN /\ size = up'[p].offset - up[p].offset
          /\ \A b \in BucketIds :
               FreeOf(up'[p].free_space, b)
                 = FreeOf(up[p].free_space, b) - (IF b = c.bucket THEN size ELSE 0)

\* C18: in every state of an upload every entry of the live free-space table
\* is >= 0 and the bytes the upload has put on a bucket do not exceed the free
\* space the snapshot reported for it; a successful chunk write lowers the
\* entry of the bucket written to by exactly the chunk size and no other entry.
C18_LiveAccounting == [][C18_Decrement]_vars /\ []C18_Table

C18_Witness ==
  \E p \in SeqProcs :
    /\ up[p].pc = "loop"
    /\ Len(up[p].chunks) = 1
    /\ Len(up[p].free_space) = 2
    /\ \E i \in 1..2 : up[p].free_space[i].free = 0
    /\ \E i \in 1..2 : up[p].free_space[i].free > 1

\* the upload is on the chunked path: no bucket of the snapshot holds the file
Chunked(p) ==
  /\ up[p].pc \in {"loop", "meta_read", "meta_write", "done"}
  /\ up[p].free_space # <<>>
  /\ \A t \in 1..Len(up[p].snapshot) : up[p].snapshot[t] < up[p].file_size

\* C19: on the chunked path every chunk but the last written takes all the
\* free space its bucket had in the snapshot and leaves the bucket's entry at 0,
\* no bucket receives two chunks of the upload, and the record of a completed
\* upload has at least 2 chunks and at most as many as the snapshot has
\* buckets with free space > 0.
C19_OneChunkPerBucket ==
  \A p \in Procs :
    (Chunked(p) /\ up[p].outcome # "NotEnoughSpace")
    => LET chunks == up[p].chunks
       IN /\ \A j, k \in 1..Len(chunks) : j # k => chunks[j].bucket # chunks[k].bucket
          /\ \A k \in 1..(Len(chunks) - 1) :
               /\ FreeOf(up[p].free_space, chunks[k].bucket) = 0
               /\ \E t \in 1..Len(tokens) :
                    /\ tokens[t] = chunks[k].bucket
                    /\ Len(ChunkData(chunks[k])) = up[p].snapshot[t]
          /\ Completed(p)
             => /\ Len(chunks) >= 2
                /\ Len(chunks)
                     <= Cardinality({t \in 1..Len(up[p].snapshot) : up[p].snapshot[t] > 0})

\* the first chunk drained its bucket, the last leaves free space on its own
C19_Witness ==
  \E p \in SeqProcs :
    /\ Chunked(p)
    /\ Completed(p)
    /\ Len(up[p].chunks) = 2
    /\ Len(ChunkData(up[p].chunks[1])) > 1
    /\ FreeOf(up[p].free_space, up[p].chunks[1].bucket) = 0
    /\ FreeOf(up[p].free_space, up[p].chunks[2].bucket) > 0

\* a record of two or more chunks, the chunk at position i named
\* '{file_name}_part{i}'
IsParts(rec) ==
  /\ Len(rec.chunks) >= 2
  /\ \A i \in 1..Len(rec.chunks) :
       rec.chunks[i].chunk_name = rec.file_name \o PartSuffix \o Digits(i)

\* C20: every record in metadata.json has either exactly one chunk named as
\* the file or two or more chunks named '{file_name}_part{i}' by position, never
\* both; the record of a completed upload is of the first shape exactly when
\* the upload took the whole-file path.
C20_RecordShape ==
  /\ \A i \in 1..Len(metaFile.recs) :
       /\ IsSingle(metaFile.recs[i]) \/ IsParts(metaFile.recs[i])
       /\ ~(IsSingle(metaFile.recs[i]) /\ IsParts(metaFile.recs[i]))
  /\ \A p \in SeqProcs :
       Completed(p)
       => /\ IsSingle(Record(p)) <=> ~Chunked(p)
          /\ IsParts(Record(p)) <=> Chunked(p)

C20_Witness ==
  /\ \E i \in 1..Len(metaFile.recs) : IsSingle(metaFile.recs[i])
  /\ \E i \in 1..Len(metaFile.recs) :
       IsParts(metaFile.recs[i]) /\ Len(metaFile.recs[i].chunks) >= 10
====
